---- MODULE Spec2Model ----
(***************************************************************************)
(* Model of the Logos references plugin: the clipboard parser              *)
(* (parseLogosClipboard, extractCiteKey, extractPageNumber,                *)
(* extractPagesFromBibtex, extractBookTitle, cleanFormattedText), the      *)
(* verse linker (linkBibleVerses) and the paste command.  A JavaScript     *)
(* string is a sequence of one-character strings; null is the tuple Null.  *)
(* Every regular expression of the source is written out as an operator    *)
(* that matches the way the JavaScript engine does (leftmost match, greedy *)
(* quantifiers).                                                           *)
(***************************************************************************)
EXTENDS Integers, Sequences, FiniteSets, TLC

VARIABLES input, pc, result

\* The plugin: settings.citationCounters, the data handed to saveData, the
\* callouts inserted into the editor, the vault, and the paste commands that
\* were invoked.
VARIABLES citationCounters, savedData, editor, vault, cmd

plugin == <<citationCounters, savedData, editor, vault, cmd>>

vars == <<input, pc, result, citationCounters, savedData, editor, vault, cmd>>

\* Largest number of fragments an input text is assembled from.
MaxFrags == 4

Null == <<"null">>

NoResult == [kind |-> "none"]

\* The functions are applied on their own: no plugin is loaded.
NotLoaded ==
    /\ citationCounters = <<>>
    /\ savedData = <<>>
    /\ editor = <<>>
    /\ vault = <<>>
    /\ cmd = <<>>

----------------------------------------------------------------------------
\* Character classes of the regular expressions.

Ws == {" ", "\n", "\t"}

LowerLetters == <<"a", "b", "c", "d", "e", "f", "g", "h", "i", "j", "k", "l", "m",
                  "n", "o", "p", "q", "r", "s", "t", "u", "v", "w", "x", "y", "z">>

UpperLetters == <<"A", "B", "C", "D", "E", "F", "G", "H", "I", "J", "K", "L", "M",
                  "N", "O", "P", "Q", "R", "S", "T", "U", "V", "W", "X", "Y", "Z">>

Digits == {"0", "1", "2", "3", "4", "5", "6", "7", "8", "9"}

Letters == {LowerLetters[i] : i \in 1..26} \cup {UpperLetters[i] : i \in 1..26}

\* \w
Word == Letters \cup Digits \cup {"_"}

\* The case folding of the i flag.
ToLower(c) ==
    IF \E i \in 1..26 : UpperLetters[i] = c
    THEN LowerLetters[CHOOSE i \in 1..26 : UpperLetters[i] = c]
    ELSE c

----------------------------------------------------------------------------
\* String primitives.

Min(S) == CHOOSE i \in S : \A j \in S : i <= j

\* Index after the longest run of characters of C that starts at i.
Span(s, i, C) ==
    IF i > Len(s) THEN i
    ELSE Min({j \in i..(Len(s) + 1) : j = Len(s) + 1 \/ s[j] \notin C})

\* Index after the longest run of characters outside C that starts at i.
SpanNot(s, i, C) ==
    IF i > Len(s) THEN i
    ELSE Min({j \in i..(Len(s) + 1) : j = Len(s) + 1 \/ s[j] \in C})

CharAt(s, i, c) == i >= 1 /\ i <= Len(s) /\ s[i] = c

\* lit occurs in s at index i, exactly (ci = FALSE) or ignoring case.
LitAt(s, i, lit, ci) ==
    /\ i >= 1
    /\ i + Len(lit) - 1 <= Len(s)
    /\ \A k \in 1..Len(lit) :
          IF ci THEN ToLower(s[i + k - 1]) = ToLower(lit[k])
                ELSE s[i + k - 1] = lit[k]

\* String.prototype.trim
trim(s) ==
    LET a == Span(s, 1, Ws)
        b == IF a > Len(s) THEN a - 1
             ELSE CHOOSE j \in a..Len(s) :
                      /\ s[j] \notin Ws
                      /\ \A k \in (j + 1)..Len(s) : s[k] \in Ws
    IN  SubSeq(s, a, b)

\* String.prototype.includes
includes(s, sub) == \E i \in 1..(Len(s) + 1) : LitAt(s, i, sub, FALSE)

\* String.prototype.replace with a string pattern: the first occurrence only.
replaceFirst(s, sub, by) ==
    IF ~includes(s, sub) THEN s
    ELSE LET i == Min({j \in 1..(Len(s) + 1) : LitAt(s, j, sub, FALSE)})
         IN  SubSeq(s, 1, i - 1) \o by \o SubSeq(s, i + Len(sub), Len(s))

----------------------------------------------------------------------------
\* The regular expressions of parseLogosClipboard.  An ...End operator gives
\* the index after the match that starts at index i, or 0 when the expression
\* does not match there.

\* @[\w]+{   (the lookahead of the split expression)
MarkerAt(s, i) ==
    /\ CharAt(s, i, "@")
    /\ LET j == Span(s, i + 1, Word)
       IN  j > i + 1 /\ CharAt(s, j, "{")

\* Variant: the lookahead only asks for '@', as in /\s+(?=@)/.
SplitEndAnyAt(s, i) ==
    IF i >= 1 /\ i <= Len(s) /\ s[i] \in Ws /\ CharAt(s, Span(s, i, Ws), "@")
    THEN Span(s, i, Ws)
    ELSE 0

\* /\s+(?=@[\w]+{)/
SplitEnd(s, i) ==
    IF i >= 1 /\ i <= Len(s) /\ s[i] \in Ws /\ MarkerAt(s, Span(s, i, Ws))
    THEN Span(s, i, Ws)
    ELSE 0

\* String.prototype.split with the expression above: p is the start of the
\* current part, q the position the expression is tried at.
RECURSIVE SplitRec(_, _, _)
SplitRec(s, p, q) ==
    IF q > Len(s) THEN <<SubSeq(s, p, Len(s))>>
    ELSE IF SplitEnd(s, q) > 0
         THEN <<SubSeq(s, p, q - 1)>> \o SplitRec(s, SplitEnd(s, q), SplitEnd(s, q))
         ELSE SplitRec(s, p, q + 1)

split(s) == SplitRec(s, 1, 1)

RefLyHost == <<":", "/", "/", "r", "e", "f", ".", "l", "y", "/">>

Http == <<"h", "t", "t", "p">>

\* /https?:\/\/ref\.ly\/[^\s)}]+/
reflyRegexEnd(s, i) ==
    IF ~LitAt(s, i, Http, FALSE) THEN 0
    ELSE LET a == IF LitAt(s, i + 4, <<"s">> \o RefLyHost, FALSE) THEN i + 5 ELSE i + 4
             b == a + Len(RefLyHost)
             e == SpanNot(s, b, Ws \cup {")", "}"})
         IN  IF LitAt(s, a, RefLyHost, FALSE) /\ e > b THEN e ELSE 0

\* trimmed.match(reflyRegex): the leftmost match, or Null.
reflyMatch(s) ==
    LET starts == {i \in 1..Len(s) : reflyRegexEnd(s, i) > 0}
    IN  IF starts = {} THEN Null
        ELSE SubSeq(s, Min(starts), reflyRegexEnd(s, Min(starts)) - 1)

ResourceLinkLabel == <<"R", "e", "s", "o", "u", "r", "c", "e", " ", "L", "i", "n", "k", ":">>

\* new RegExp(`\\s*\\(?Resource Link:\\s*${escaped link}\\)?`, 'i')
wrapperEnd(s, i, link) ==
    LET a == Span(s, i, Ws)
        b == IF CharAt(s, a, "(") THEN a + 1 ELSE a
        c == Span(s, b + Len(ResourceLinkLabel), Ws)
        d == c + Len(link)
    IN  IF LitAt(s, b, ResourceLinkLabel, TRUE) /\ LitAt(s, c, link, TRUE)
        THEN (IF CharAt(s, d, ")") THEN d + 1 ELSE d)
        ELSE 0

\* mainText.replace(wrapper, ""): the leftmost match is removed.
removeWrapper(s, link) ==
    LET starts == {i \in 1..Len(s) : wrapperEnd(s, i, link) > 0}
    IN  IF starts = {} THEN s
        ELSE SubSeq(s, 1, Min(starts) - 1)
             \o SubSeq(s, wrapperEnd(s, Min(starts), link), Len(s))

PagesKey == <<"p", "a", "g", "e", "s">>

\* /pages\s*=\s*\{([^}]+)\}/i : index of the opening brace of the match that
\* starts at i, or 0.
pageMatchOpen(s, i) ==
    LET a == Span(s, i + Len(PagesKey), Ws)
        b == Span(s, a + 1, Ws)
        c == SpanNot(s, b + 1, {"}"})
    IN  IF /\ LitAt(s, i, PagesKey, TRUE)
           /\ CharAt(s, a, "=")
           /\ CharAt(s, b, "{")
           /\ c > b + 1
           /\ CharAt(s, c, "}")
        THEN b
        ELSE 0

\* bibtex.match(...)[1]: the capture group of the leftmost match, or Null.
pageMatch(s) ==
    LET starts == {i \in 1..Len(s) : pageMatchOpen(s, i) > 0}
        o == pageMatchOpen(s, Min(starts))
    IN  IF starts = {} THEN Null
        ELSE SubSeq(s, o + 1, SpanNot(s, o + 1, {"}"}) - 1)

\* /pages\s*=\s*\{[^}]*\},?\s*\n?/gi
pagesFieldEnd(s, i) ==
    LET a == Span(s, i + Len(PagesKey), Ws)
        b == Span(s, a + 1, Ws)
        c == SpanNot(s, b + 1, {"}"})
        d == IF CharAt(s, c + 1, ",") THEN c + 2 ELSE c + 1
    IN  IF /\ LitAt(s, i, PagesKey, TRUE)
           /\ CharAt(s, a, "=")
           /\ CharAt(s, b, "{")
           /\ CharAt(s, c, "}")
        THEN Span(s, d, Ws)
        ELSE 0

\* bibtex.replace(/.../gi, ""): every match, scanning left to right.
RECURSIVE removePagesFrom(_, _)
removePagesFrom(s, i) ==
    IF i > Len(s) THEN <<>>
    ELSE IF pagesFieldEnd(s, i) > 0 THEN removePagesFrom(s, pagesFieldEnd(s, i))
         ELSE <<s[i]>> \o removePagesFrom(s, i + 1)

removePages(s) == removePagesFrom(s, 1)

\* Lines 118-130: the resource link is searched in the whole trimmed text and
\* removed from the quote when the quote contains it.
stripResourceLink(trimmed, mainTextRaw) ==
    LET reflyLink == reflyMatch(trimmed)
    IN  IF reflyLink # Null /\ includes(mainTextRaw, reflyLink)
        THEN trim(replaceFirst(removeWrapper(mainTextRaw, reflyLink), reflyLink, <<>>))
        ELSE mainTextRaw

\* Variant: the record-only case asks for a whole marker '@<word>{'.
startsWithMarker(s) == MarkerAt(s, 1)

\* trimmed.startsWith('@')
startsWithAt(s) == CharAt(s, 1, "@")

parseLogosClipboard(clip) ==
    LET trimmed == trim(clip)
        parts == split(trimmed)
        mainTextRaw == trim(parts[1])
        bibtex == trim(parts[2])
    IN  IF startsWithAt(trimmed)
        THEN [mainText |-> <<>>, bibtex |-> removePages(trimmed),
              page |-> pageMatch(trimmed), reflyLink |-> Null]
        ELSE IF Len(parts) < 2
        THEN [mainText |-> trimmed, bibtex |-> <<>>, page |-> Null, reflyLink |-> Null]
        ELSE [mainText |-> trim(stripResourceLink(trimmed, mainTextRaw)),
              bibtex |-> removePages(bibtex),
              page |-> pageMatch(bibtex),
              reflyLink |-> reflyMatch(trimmed)]

\* extractPagesFromBibtex: /pages\s*=\s*[{"']([^}"']+)[}"']/i
extractPagesOpen(s, i) ==
    LET a == Span(s, i + Len(PagesKey), Ws)
        b == Span(s, a + 1, Ws)
        c == SpanNot(s, b + 1, {"}", "\"", "'"})
    IN  IF /\ LitAt(s, i, PagesKey, TRUE)
           /\ CharAt(s, a, "=")
           /\ b <= Len(s) /\ s[b] \in {"{", "\"", "'"}
           /\ c > b + 1
           /\ c <= Len(s)
        THEN b
        ELSE 0

extractPagesFromBibtex(s) ==
    LET starts == {i \in 1..Len(s) : extractPagesOpen(s, i) > 0}
        o == extractPagesOpen(s, Min(starts))
    IN  IF starts = {} THEN Null
        ELSE SubSeq(s, o + 1, SpanNot(s, o + 1, {"}", "\"", "'"}) - 1)

----------------------------------------------------------------------------
\* extractCiteKey

Alnum == Letters \cup Digits

\* Variant: the identifier may be empty, as in /^@\w+\{([^,]*),/.
headerCommaEmptyId(s) ==
    LET j == Span(s, 2, Word)
        c == SpanNot(s, j + 1, {","})
    IN  IF /\ CharAt(s, 1, "@")
           /\ j > 2
           /\ CharAt(s, j, "{")
           /\ c <= Len(s)
        THEN c
        ELSE 0

\* /^@\w+\{([^,]+),/ : index of the comma that ends the match, or 0.
headerComma(s) ==
    LET j == Span(s, 2, Word)
        c == SpanNot(s, j + 1, {","})
    IN  IF /\ CharAt(s, 1, "@")
           /\ j > 2
           /\ CharAt(s, j, "{")
           /\ c > j + 1
           /\ c <= Len(s)
        THEN c
        ELSE 0

\* match[1]
headerIdentifier(s) == SubSeq(s, Span(s, 2, Word) + 1, headerComma(s) - 1)

\* .replace(/[_\W]+/g, '-') : every run of characters that are not ASCII
\* letters or digits becomes one hyphen.
RECURSIVE replaceNonAlnumRuns(_)
replaceNonAlnumRuns(s) ==
    IF s = <<>> THEN <<>>
    ELSE IF Head(s) \in Alnum THEN <<Head(s)>> \o replaceNonAlnumRuns(Tail(s))
         ELSE <<"-">> \o replaceNonAlnumRuns(
                  SubSeq(s, Span(s, 1, {s[k] : k \in 1..Len(s)} \ Alnum), Len(s)))

\* .replace(/-+/g, '-')
RECURSIVE collapseHyphens(_)
collapseHyphens(s) ==
    IF s = <<>> THEN <<>>
    ELSE IF Head(s) # "-" THEN <<Head(s)>> \o collapseHyphens(Tail(s))
         ELSE <<"-">> \o collapseHyphens(SubSeq(s, Span(s, 1, {"-"}), Len(s)))

\* Variant: only the leading hyphen is removed, as in .replace(/^-/, '').
stripLeadingHyphen(s) == IF CharAt(s, 1, "-") THEN Tail(s) ELSE s

\* .replace(/^-|-$/g, '')
stripEdgeHyphens(s) ==
    LET a == IF CharAt(s, 1, "-") THEN Tail(s) ELSE s
    IN  IF CharAt(a, Len(a), "-") THEN SubSeq(a, 1, Len(a) - 1) ELSE a

sanitizeCiteKey(id) == stripEdgeHyphens(collapseHyphens(replaceNonAlnumRuns(id)))

extractCiteKey(bibtex) ==
    IF headerComma(bibtex) = 0
    THEN [threw |-> TRUE, citeKey |-> Null]
    ELSE [threw |-> FALSE, citeKey |-> sanitizeCiteKey(headerIdentifier(bibtex))]

----------------------------------------------------------------------------
\* Inputs: every text that is a concatenation of at most MaxFrags fragments.

RECURSIVE Concat(_)
Concat(fs) == IF fs = <<>> THEN <<>> ELSE Head(fs) \o Concat(Tail(fs))

Texts(Frags) == {Concat(fs) : fs \in UNION {[1..n -> Frags] : n \in 0..MaxFrags}}

RefLyLinkA == <<"h", "t", "t", "p", ":", "/", "/", "r", "e", "f", ".", "l", "y", "/", "a">>

SplitFrags ==
    { <<"q">>, <<" ">>, <<"\n">>, <<"@">>,
      <<"@", "b", "{", "k", ",">>,
      <<" ", "@", "b", "{", "k", ",">>,
      RefLyLinkA,
      <<"(", "R", "e", "s", "o", "u", "r", "c", "e", " ", "L", "i", "n", "k", ":", " ">>,
      <<")">> }

PagesFrags ==
    { <<"q">>, <<" ">>,
      <<"@", "b", "{", "k", ",">>,
      <<" ", "@", "b", "{", "k", ",">>,
      <<"p", "a", "g", "e", "s", "=", "{", "1", "2", "}", ",">>,
      <<"P", "a", "g", "e", "s", " ", "=", " ", "\"", "1", "2", "\"", ",">>,
      <<"p", "a", "g", "e", "s", "=", "{", " ", "7", " ", "}">>,
      <<"n", "u", "m">>,
      <<"}">> }

CiteFrags ==
    { <<"@", "b", "{">>, <<"@">>, <<"{">>, <<"k">>, <<"2">>, <<"_">>, <<"-">>,
      <<".">>, <<" ">>, <<",">> }

----------------------------------------------------------------------------
\* The state machine: an input text is given, and the functions are applied.

Start(Frags) ==
    /\ input \in Texts(Frags)
    /\ pc = "input"
    /\ result = NoResult
    /\ NotLoaded

\* const parsed = parseLogosClipboard(clipboard)
Parse ==
    /\ pc = "input"
    /\ result' = parseLogosClipboard(input)
    /\ pc' = "parsed"
    /\ UNCHANGED <<input, plugin>>

\* extractPagesFromBibtex(parsed.bibtex)
SearchPages ==
    /\ pc = "parsed"
    /\ result' = [parsed |-> result,
                  pagesFound |-> extractPagesFromBibtex(result.bibtex)]
    /\ pc' = "searched"
    /\ UNCHANGED <<input, plugin>>

\* extractCiteKey(record)
CiteKey ==
    /\ pc = "input"
    /\ result' = extractCiteKey(input)
    /\ pc' = "keyed"
    /\ UNCHANGED <<input, plugin>>

InitSplit == Start(SplitFrags)

NextSplit == Parse

SpecSplit == InitSplit /\ [][NextSplit]_vars

InitPages == Start(PagesFrags)

NextPages == Parse \/ SearchPages

SpecPages == InitPages /\ [][NextPages]_vars

InitCiteKey == Start(CiteFrags)

NextCiteKey == CiteKey

SpecCiteKey == InitCiteKey /\ [][NextCiteKey]_vars

----------------------------------------------------------------------------
\* extractPageNumber

\* The en dash (U+2013), one character.
EnDash == "en-dash"

\* Variant: a single p, as in /[([ ]?(p\.? ?\d+([<en dash>-]\d+)?)[)\]]?\.?$/i.
pageRegexSingleP(s, i) ==
    LET a == IF i <= Len(s) /\ s[i] \in {"(", "[", " "} THEN i + 1 ELSE i
        b == a + 1
        c == IF CharAt(s, b, ".") THEN b + 1 ELSE b
        d == IF CharAt(s, c, " ") THEN c + 1 ELSE c
        e == Span(s, d, Digits)
        f == IF e <= Len(s) /\ s[e] \in {EnDash, "-"} /\ Span(s, e + 1, Digits) > e + 1
             THEN Span(s, e + 1, Digits) ELSE e
        g == IF f <= Len(s) /\ s[f] \in {")", "]"} THEN f + 1 ELSE f
        h == IF CharAt(s, g, ".") THEN g + 1 ELSE g
    IN  [ok |-> /\ a <= Len(s) /\ ToLower(s[a]) = "p"
                /\ e > d
                /\ h = Len(s) + 1,
         from |-> a, to |-> f - 1]

\* /[([ ]?(p{1,2}\.? ?\d+([<en dash>-]\d+)?)[)\]]?\.?$/i tried at index i: whether it
\* matches there, and the bounds of capture group 1.  Every quantifier has one
\* way to succeed, so the greedy choice is the only one.
pageRegex(s, i) ==
    LET a == IF i <= Len(s) /\ s[i] \in {"(", "[", " "} THEN i + 1 ELSE i
        b == IF a + 1 <= Len(s) /\ ToLower(s[a + 1]) = "p" THEN a + 2 ELSE a + 1
        c == IF CharAt(s, b, ".") THEN b + 1 ELSE b
        d == IF CharAt(s, c, " ") THEN c + 1 ELSE c
        e == Span(s, d, Digits)
        f == IF e <= Len(s) /\ s[e] \in {EnDash, "-"} /\ Span(s, e + 1, Digits) > e + 1
             THEN Span(s, e + 1, Digits) ELSE e
        g == IF f <= Len(s) /\ s[f] \in {")", "]"} THEN f + 1 ELSE f
        h == IF CharAt(s, g, ".") THEN g + 1 ELSE g
    IN  [ok |-> /\ a <= Len(s) /\ ToLower(s[a]) = "p"
                /\ e > d
                /\ h = Len(s) + 1,
         from |-> a, to |-> f - 1]

extractPageNumber(text) ==
    LET starts == {i \in 1..Len(text) : pageRegex(text, i).ok}
        m == pageRegex(text, Min(starts))
    IN  IF starts # {}
        THEN [cleanedText |-> trim(SubSeq(text, 1, Min(starts) - 1)),
              page |-> SubSeq(text, m.from, m.to)]
        ELSE [cleanedText |-> trim(text), page |-> Null]

PageNumberFrags ==
    { <<"t">>, <<" ">>, <<"(", "p">>, <<"p">>, <<"P", ".", " ">>, <<"4">>,
      <<"2", "-", "5">>, <<"7", EnDash, "8">>, <<")">>, <<".">> }

\* extractPageNumber(text)
PageNumber ==
    /\ pc = "input"
    /\ result' = extractPageNumber(input)
    /\ pc' = "paged"
    /\ UNCHANGED <<input, plugin>>

InitPageNumber == Start(PageNumberFrags)

NextPageNumber == PageNumber

SpecPageNumber == InitPageNumber /\ [][NextPageNumber]_vars

----------------------------------------------------------------------------
\* extractBookTitle

TitleKey == <<"t", "i", "t", "l", "e">>

\* /title\s*=\s*\{([^}]+)\}/i : index of the opening brace of the match that
\* starts at i, or 0.
titleMatchOpen(s, i) ==
    LET a == Span(s, i + Len(TitleKey), Ws)
        b == Span(s, a + 1, Ws)
        c == SpanNot(s, b + 1, {"}"})
    IN  IF /\ LitAt(s, i, TitleKey, TRUE)
           /\ CharAt(s, a, "=")
           /\ CharAt(s, b, "{")
           /\ c > b + 1
           /\ c <= Len(s)
        THEN b
        ELSE 0

\* The call ended with a TypeError instead of a value.
Thrown == <<"TypeError">>

\* Variant: titleMatch[1] is read without testing titleMatch.
extractBookTitleUnguarded(bibtex) ==
    LET starts == {i \in 1..Len(bibtex) : titleMatchOpen(bibtex, i) > 0}
        o == titleMatchOpen(bibtex, Min(starts))
    IN  IF starts = {} THEN Thrown
        ELSE SubSeq(bibtex, o + 1, SpanNot(bibtex, o + 1, {"}"}) - 1)

extractBookTitle(bibtex) ==
    LET starts == {i \in 1..Len(bibtex) : titleMatchOpen(bibtex, i) > 0}
        o == titleMatchOpen(bibtex, Min(starts))
    IN  IF starts = {} THEN Null
        ELSE SubSeq(bibtex, o + 1, SpanNot(bibtex, o + 1, {"}"}) - 1)

BookTitleFrags ==
    { <<"@", "b", "{", "k", ",">>,
      <<"t", "i", "t", "l", "e", "=", "{", "T", "}">>,
      <<"T", "i", "t", "l", "e", " ", "=", " ", "{", "U", " ", "V", "}">>,
      <<"b", "o", "o", "k", "t", "i", "t", "l", "e", "=", "{", "B", "}">>,
      <<"t", "i", "t", "l", "e", "=", "{", "}">>,
      <<"s", "u", "b">>,
      <<",">>, <<" ">>, <<"}">> }

\* extractBookTitle(bibtex)
BookTitle ==
    /\ pc = "input"
    /\ result' = extractBookTitle(input)
    /\ pc' = "titled"
    /\ UNCHANGED <<input, plugin>>

InitBookTitle == Start(BookTitleFrags)

NextBookTitle == BookTitle

SpecBookTitle == InitBookTitle /\ [][NextBookTitle]_vars

----------------------------------------------------------------------------
\* cleanFormattedText

\* The characters '.' does not match.
LineTerminators == {"\n", "\r"}

\* /d(.*?)d/ tried at index i for a delimiter d: index where the closing
\* delimiter starts, or 0.  The lazy quantifier stops at the first closing
\* delimiter on the same line.
spanClose(s, i, d) ==
    LET js == {j \in (i + Len(d))..Len(s) :
                  /\ LitAt(s, j, d, FALSE)
                  /\ \A k \in (i + Len(d))..(j - 1) : s[k] \notin LineTerminators}
    IN  IF LitAt(s, i, d, FALSE) /\ js # {} THEN Min(js) ELSE 0

\* s.replace(/d(.*?)d/g, open + '$1' + close) from index i on: the matches are
\* taken from left to right and do not overlap.
RECURSIVE replaceSpans(_, _, _, _, _)
replaceSpans(s, i, d, open, close) ==
    IF i > Len(s) THEN <<>>
    ELSE LET e == spanClose(s, i, d)
         IN  IF e > 0
             THEN open \o SubSeq(s, i + Len(d), e - 1) \o close
                       \o replaceSpans(s, e + Len(d), d, open, close)
             ELSE <<s[i]>> \o replaceSpans(s, i + 1, d, open, close)

SupOpen == <<"<", "s", "u", "p", ">">>

SupClose == <<"<", "/", "s", "u", "p", ">">>

\* Variant: double asterisks are superscript delimiters too.
doubleMarkerRule(s) ==
    replaceSpans(replaceSpans(s, 1, <<"*", "*">>, SupOpen, SupClose),
                 1, <<"_", "_">>, SupOpen, SupClose)

\* text.replace(/__(.*?)__/g, '<sup>$1</sup>')
doubleUnderscoreRule(s) == replaceSpans(s, 1, <<"_", "_">>, SupOpen, SupClose)

\* Variant: without the g flag, only the first span is replaced.
singleUnderscoreRuleFirstOnly(s) ==
    LET starts == {i \in 1..Len(s) : spanClose(s, i, <<"_">>) > 0}
        i == Min(starts)
        e == spanClose(s, i, <<"_">>)
    IN  IF starts = {} THEN s
        ELSE SubSeq(s, 1, i - 1) \o <<"*">> \o SubSeq(s, i + 1, e - 1)
                 \o <<"*">> \o SubSeq(s, e + 1, Len(s))

\* processed.replace(/_(.*?)_/g, '*$1*')
singleUnderscoreRule(s) == replaceSpans(s, 1, <<"_">>, <<"*">>, <<"*">>)

\* Variant: the single-underscore rule runs first.
cleanFormattedTextItalicFirst(text) ==
    IF text = <<>> THEN text
    ELSE doubleUnderscoreRule(singleUnderscoreRule(text))

cleanFormattedText(text) ==
    IF text = <<>> THEN text
    ELSE singleUnderscoreRule(doubleUnderscoreRule(text))

CleanFrags ==
    { <<"_">>, <<"_", "_">>, <<"a">>, <<" ">>, <<"\n">>, <<"*">>,
      <<"_", "_", "x", " ", "y", "_", "_">>,
      <<"_", "i", "_">>,
      <<"*", "*", "b", "*", "*">>,
      <<"*", "_", "c", "_", "*">> }

\* cleanFormattedText(text)
Clean ==
    /\ pc = "input"
    /\ result' = cleanFormattedText(input)
    /\ pc' = "cleaned"
    /\ UNCHANGED <<input, plugin>>

InitClean == Start(CleanFrags)

NextClean == Clean

SpecClean == InitClean /\ [][NextClean]_vars

----------------------------------------------------------------------------
\* linkBibleVerses

\* BIBLE_BOOKS: book names and abbreviations to Logos reference codes.
BIBLE_BOOKS ==
    "genesis" :> <<"G", "e">> @@ "gen" :> <<"G", "e">> @@ "ge" :> <<"G", "e">>
    @@ "exodus" :> <<"E", "x">> @@ "exod" :> <<"E", "x">>
    @@ "ex" :> <<"E", "x">> @@ "leviticus" :> <<"L", "v">>
    @@ "lev" :> <<"L", "v">> @@ "lv" :> <<"L", "v">>
    @@ "numbers" :> <<"N", "u">> @@ "num" :> <<"N", "u">>
    @@ "nu" :> <<"N", "u">> @@ "nm" :> <<"N", "u">>
    @@ "deuteronomy" :> <<"D", "t">> @@ "deut" :> <<"D", "t">>
    @@ "dt" :> <<"D", "t">> @@ "de" :> <<"D", "t">>
    @@ "joshua" :> <<"J", "o", "s">> @@ "josh" :> <<"J", "o", "s">>
    @@ "jos" :> <<"J", "o", "s">> @@ "judges" :> <<"J", "d", "g">>
    @@ "judg" :> <<"J", "d", "g">> @@ "jdg" :> <<"J", "d", "g">>
    @@ "jg" :> <<"J", "d", "g">> @@ "ruth" :> <<"R", "u">>
    @@ "ru" :> <<"R", "u">> @@ "rth" :> <<"R", "u">>
    @@ "1samuel" :> <<"1", "S", "a">> @@ "1sam" :> <<"1", "S", "a">>
    @@ "1sa" :> <<"1", "S", "a">> @@ "1sm" :> <<"1", "S", "a">>
    @@ "isamuel" :> <<"1", "S", "a">> @@ "isam" :> <<"1", "S", "a">>
    @@ "2samuel" :> <<"2", "S", "a">> @@ "2sam" :> <<"2", "S", "a">>
    @@ "2sa" :> <<"2", "S", "a">> @@ "2sm" :> <<"2", "S", "a">>
    @@ "iisamuel" :> <<"2", "S", "a">> @@ "iisam" :> <<"2", "S", "a">>
    @@ "1kings" :> <<"1", "K", "i">> @@ "1kgs" :> <<"1", "K", "i">>
    @@ "1ki" :> <<"1", "K", "i">> @@ "1kg" :> <<"1", "K", "i">>
    @@ "ikings" :> <<"1", "K", "i">> @@ "ikgs" :> <<"1", "K", "i">>
    @@ "2kings" :> <<"2", "K", "i">> @@ "2kgs" :> <<"2", "K", "i">>
    @@ "2ki" :> <<"2", "K", "i">> @@ "2kg" :> <<"2", "K", "i">>
    @@ "iikings" :> <<"2", "K", "i">> @@ "iikgs" :> <<"2", "K", "i">>
    @@ "1chronicles" :> <<"1", "C", "h">> @@ "1chr" :> <<"1", "C", "h">>
    @@ "1ch" :> <<"1", "C", "h">> @@ "ichronicles" :> <<"1", "C", "h">>
    @@ "ichr" :> <<"1", "C", "h">> @@ "2chronicles" :> <<"2", "C", "h">>
    @@ "2chr" :> <<"2", "C", "h">> @@ "2ch" :> <<"2", "C", "h">>
    @@ "iichronicles" :> <<"2", "C", "h">> @@ "iichr" :> <<"2", "C", "h">>
    @@ "ezra" :> <<"E", "z", "r">> @@ "ezr" :> <<"E", "z", "r">>
    @@ "nehemiah" :> <<"N", "e">> @@ "neh" :> <<"N", "e">>
    @@ "ne" :> <<"N", "e">> @@ "esther" :> <<"E", "s">>
    @@ "esth" :> <<"E", "s">> @@ "es" :> <<"E", "s">> @@ "est" :> <<"E", "s">>
    @@ "job" :> <<"J", "o", "b">> @@ "jb" :> <<"J", "o", "b">>
    @@ "psalms" :> <<"P", "s">> @@ "psalm" :> <<"P", "s">>
    @@ "ps" :> <<"P", "s">> @@ "psa" :> <<"P", "s">> @@ "pss" :> <<"P", "s">>
    @@ "proverbs" :> <<"P", "r">> @@ "prov" :> <<"P", "r">>
    @@ "pr" :> <<"P", "r">> @@ "prv" :> <<"P", "r">>
    @@ "ecclesiastes" :> <<"E", "c">> @@ "eccl" :> <<"E", "c">>
    @@ "ecc" :> <<"E", "c">> @@ "ec" :> <<"E", "c">>
    @@ "eccles" :> <<"E", "c">> @@ "qoh" :> <<"E", "c">>
    @@ "songofsolomon" :> <<"S", "o">> @@ "songofsongs" :> <<"S", "o">>
    @@ "song" :> <<"S", "o">> @@ "sos" :> <<"S", "o">> @@ "so" :> <<"S", "o">>
    @@ "ss" :> <<"S", "o">> @@ "canticles" :> <<"S", "o">>
    @@ "cant" :> <<"S", "o">> @@ "isaiah" :> <<"I", "s">>
    @@ "isa" :> <<"I", "s">> @@ "is" :> <<"I", "s">>
    @@ "jeremiah" :> <<"J", "e">> @@ "jer" :> <<"J", "e">>
    @@ "je" :> <<"J", "e">> @@ "jr" :> <<"J", "e">>
    @@ "lamentations" :> <<"L", "a">> @@ "lam" :> <<"L", "a">>
    @@ "la" :> <<"L", "a">> @@ "ezekiel" :> <<"E", "z", "e">>
    @@ "ezek" :> <<"E", "z", "e">> @@ "eze" :> <<"E", "z", "e">>
    @@ "ez" :> <<"E", "z", "e">> @@ "daniel" :> <<"D", "a">>
    @@ "dan" :> <<"D", "a">> @@ "da" :> <<"D", "a">> @@ "dn" :> <<"D", "a">>
    @@ "hosea" :> <<"H", "o">> @@ "hos" :> <<"H", "o">>
    @@ "ho" :> <<"H", "o">> @@ "joel" :> <<"J", "o", "e">>
    @@ "joe" :> <<"J", "o", "e">> @@ "jl" :> <<"J", "o", "e">>
    @@ "amos" :> <<"A", "m">> @@ "am" :> <<"A", "m">>
    @@ "obadiah" :> <<"O", "b">> @@ "obad" :> <<"O", "b">>
    @@ "ob" :> <<"O", "b">> @@ "jonah" :> <<"J", "o", "n">>
    @@ "jnh" :> <<"J", "o", "n">> @@ "micah" :> <<"M", "i", "c">>
    @@ "mic" :> <<"M", "i", "c">> @@ "mi" :> <<"M", "i", "c">>
    @@ "nahum" :> <<"N", "a">> @@ "nah" :> <<"N", "a">>
    @@ "na" :> <<"N", "a">> @@ "habakkuk" :> <<"H", "a", "b">>
    @@ "hab" :> <<"H", "a", "b">> @@ "hb" :> <<"H", "a", "b">>
    @@ "zephaniah" :> <<"Z", "e", "p">> @@ "zeph" :> <<"Z", "e", "p">>
    @@ "zep" :> <<"Z", "e", "p">> @@ "haggai" :> <<"H", "a", "g">>
    @@ "hag" :> <<"H", "a", "g">> @@ "hg" :> <<"H", "a", "g">>
    @@ "zechariah" :> <<"Z", "e", "c">> @@ "zech" :> <<"Z", "e", "c">>
    @@ "zec" :> <<"Z", "e", "c">> @@ "malachi" :> <<"M", "a", "l">>
    @@ "mal" :> <<"M", "a", "l">> @@ "matthew" :> <<"M", "t">>
    @@ "matt" :> <<"M", "t">> @@ "mt" :> <<"M", "t">>
    @@ "mark" :> <<"M", "k">> @@ "mk" :> <<"M", "k">> @@ "mr" :> <<"M", "k">>
    @@ "luke" :> <<"L", "k">> @@ "lk" :> <<"L", "k">> @@ "lu" :> <<"L", "k">>
    @@ "john" :> <<"J", "n">> @@ "jn" :> <<"J", "n">> @@ "jhn" :> <<"J", "n">>
    @@ "acts" :> <<"A", "c">> @@ "ac" :> <<"A", "c">>
    @@ "romans" :> <<"R", "o">> @@ "rom" :> <<"R", "o">>
    @@ "ro" :> <<"R", "o">> @@ "rm" :> <<"R", "o">>
    @@ "1corinthians" :> <<"1", "C", "o">> @@ "1cor" :> <<"1", "C", "o">>
    @@ "1co" :> <<"1", "C", "o">> @@ "icorinthians" :> <<"1", "C", "o">>
    @@ "icor" :> <<"1", "C", "o">> @@ "2corinthians" :> <<"2", "C", "o">>
    @@ "2cor" :> <<"2", "C", "o">> @@ "2co" :> <<"2", "C", "o">>
    @@ "iicorinthians" :> <<"2", "C", "o">> @@ "iicor" :> <<"2", "C", "o">>
    @@ "galatians" :> <<"G", "a">> @@ "gal" :> <<"G", "a">>
    @@ "ga" :> <<"G", "a">> @@ "ephesians" :> <<"E", "p", "h">>
    @@ "eph" :> <<"E", "p", "h">> @@ "philippians" :> <<"P", "h", "p">>
    @@ "phil" :> <<"P", "h", "p">> @@ "php" :> <<"P", "h", "p">>
    @@ "colossians" :> <<"C", "o", "l">> @@ "col" :> <<"C", "o", "l">>
    @@ "1thessalonians" :> <<"1", "T", "h">> @@ "1thess" :> <<"1", "T", "h">>
    @@ "1th" :> <<"1", "T", "h">> @@ "ithessalonians" :> <<"1", "T", "h">>
    @@ "ithess" :> <<"1", "T", "h">> @@ "2thessalonians" :> <<"2", "T", "h">>
    @@ "2thess" :> <<"2", "T", "h">> @@ "2th" :> <<"2", "T", "h">>
    @@ "iithessalonians" :> <<"2", "T", "h">>
    @@ "iithess" :> <<"2", "T", "h">> @@ "1timothy" :> <<"1", "T", "i">>
    @@ "1tim" :> <<"1", "T", "i">> @@ "1ti" :> <<"1", "T", "i">>
    @@ "itimothy" :> <<"1", "T", "i">> @@ "itim" :> <<"1", "T", "i">>
    @@ "2timothy" :> <<"2", "T", "i">> @@ "2tim" :> <<"2", "T", "i">>
    @@ "2ti" :> <<"2", "T", "i">> @@ "iitimothy" :> <<"2", "T", "i">>
    @@ "iitim" :> <<"2", "T", "i">> @@ "titus" :> <<"T", "t">>
    @@ "tit" :> <<"T", "t">> @@ "tt" :> <<"T", "t">>
    @@ "philemon" :> <<"P", "h", "m">> @@ "phlm" :> <<"P", "h", "m">>
    @@ "phm" :> <<"P", "h", "m">> @@ "hebrews" :> <<"H", "e", "b">>
    @@ "heb" :> <<"H", "e", "b">> @@ "james" :> <<"J", "a", "s">>
    @@ "jas" :> <<"J", "a", "s">> @@ "jm" :> <<"J", "a", "s">>
    @@ "1peter" :> <<"1", "P", "e">> @@ "1pet" :> <<"1", "P", "e">>
    @@ "1pe" :> <<"1", "P", "e">> @@ "1pt" :> <<"1", "P", "e">>
    @@ "ipeter" :> <<"1", "P", "e">> @@ "ipet" :> <<"1", "P", "e">>
    @@ "2peter" :> <<"2", "P", "e">> @@ "2pet" :> <<"2", "P", "e">>
    @@ "2pe" :> <<"2", "P", "e">> @@ "2pt" :> <<"2", "P", "e">>
    @@ "iipeter" :> <<"2", "P", "e">> @@ "iipet" :> <<"2", "P", "e">>
    @@ "1john" :> <<"1", "J", "n">> @@ "1jn" :> <<"1", "J", "n">>
    @@ "ijohn" :> <<"1", "J", "n">> @@ "ijn" :> <<"1", "J", "n">>
    @@ "2john" :> <<"2", "J", "n">> @@ "2jn" :> <<"2", "J", "n">>
    @@ "iijohn" :> <<"2", "J", "n">> @@ "iijn" :> <<"2", "J", "n">>
    @@ "3john" :> <<"3", "J", "n">> @@ "3jn" :> <<"3", "J", "n">>
    @@ "iiijohn" :> <<"3", "J", "n">> @@ "iiijn" :> <<"3", "J", "n">>
    @@ "jude" :> <<"J", "u", "d">> @@ "jud" :> <<"J", "u", "d">>
    @@ "revelation" :> <<"R", "e">> @@ "rev" :> <<"R", "e">>
    @@ "re" :> <<"R", "e">> @@ "apocalypse" :> <<"R", "e">>
    @@ "apoc" :> <<"R", "e">>

\* What a plain object inherits from Object.prototype: of the inherited
\* property names only 'constructor' is made of lowercase letters, and a
\* template literal renders its value as the text below.
ObjectPrototype ==
    "constructor" :>
        <<"f", "u", "n", "c", "t", "i", "o", "n", " ", "O", "b", "j", "e",
          "c", "t", "(", ")", " ", "{", " ", "[", "n", "a", "t", "i", "v",
          "e", " ", "c", "o", "d", "e", "]", " ", "}">>

\* VERSION_MAPPING: lowercase translation abbreviation to Logos version code;
\* two entries stand for the table.
VERSION_MAPPING ==
    "esv" :> <<"e", "s", "v">> @@ "nasb" :> <<"n", "a", "s", "b", "9", "5">>

\* The text of a sequence of characters, as a property name.
RECURSIVE Str(_)
Str(s) == IF s = <<>> THEN "" ELSE Head(s) \o Str(Tail(s))

\* String.prototype.toLowerCase
toLowerCase(s) == [k \in 1..Len(s) |-> ToLower(s[k])]

\* replace(/\s+/g, '')
removeWhitespace(s) == SelectSeq(s, LAMBDA c : c \notin Ws)

\* VERSION_MAPPING[version.toLowerCase()] || version
logosVersionOf(version) ==
    IF Str(toLowerCase(version)) \in DOMAIN VERSION_MAPPING
    THEN VERSION_MAPPING[Str(toLowerCase(version))]
    ELSE version

\* BIBLE_BOOKS[normalizedBook]: an own property, else an inherited one, else
\* undefined.
bookCodeOf(normalizedBook) ==
    LET k == Str(normalizedBook)
    IN  IF k \in DOMAIN BIBLE_BOOKS THEN BIBLE_BOOKS[k]
        ELSE IF k \in DOMAIN ObjectPrototype THEN ObjectPrototype[k]
        ELSE Null

\* s.replace(/^lit/, r)
replaceAtStart(s, lit, r) ==
    IF LitAt(s, 1, lit, FALSE) THEN r \o SubSeq(s, Len(lit) + 1, Len(s)) ELSE s

\* Variant: the shortest numeral is replaced first.
romanPrefixShortestFirst(s) ==
    replaceAtStart(replaceAtStart(replaceAtStart(s, <<"i">>, <<"1">>),
                                  <<"i", "i">>, <<"2">>),
                   <<"i", "i", "i">>, <<"3">>)

\* .replace(/^iii/, '3').replace(/^ii/, '2').replace(/^i/, '1')
romanPrefix(s) ==
    replaceAtStart(replaceAtStart(replaceAtStart(s, <<"i", "i", "i">>, <<"3">>),
                                  <<"i", "i">>, <<"2">>),
                   <<"i">>, <<"1">>)

\* ((prefix || '') + book).toLowerCase().replace(/\s+/g, ''), then the Roman
\* numeral replacements.
normalizeBook(prefixAndBook) ==
    romanPrefix(removeWhitespace(toLowerCase(prefixAndBook)))

\* \b at index i: exactly one of s[i-1], s[i] is a word character.
wordBoundary(s, i) ==
    (i > 1 /\ s[i - 1] \in Word) # (i <= Len(s) /\ s[i] \in Word)

\* [-<a circumflex><euro sign><left double quotation mark>] as the file holds
\* it; the three characters after the hyphen are written out by name.
RangeDashes == {"-", "a-circumflex", "euro-sign", "left-double-quote"}

\* ([A-Za-z]+)\.?\s+(\d+):(\d+)(?:\s*[-...]\s*(\d+))?\b tried with the book at
\* index p.  Each quantifier is followed by a character outside its class, so
\* only its longest run can succeed; the range group is taken when it can be
\* followed by \b and left out otherwise.
verseTail(s, p) ==
    LET a == Span(s, p, Letters)
        b == IF CharAt(s, a, ".") THEN a + 1 ELSE a
        c == Span(s, b, Ws)
        d == Span(s, c, Digits)
        e == Span(s, d + 1, Digits)
        f == Span(s, e, Ws)
        g == Span(s, f + 1, Ws)
        h == Span(s, g, Digits)
        range == /\ f <= Len(s) /\ s[f] \in RangeDashes
                 /\ h > g
                 /\ wordBoundary(s, h)
    IN  [ok |-> /\ a > p /\ c > b /\ d > c /\ CharAt(s, d, ":") /\ e > d + 1
                /\ (range \/ wordBoundary(s, e)),
         bookEnd |-> a, chapter |-> <<c, d - 1>>, verse |-> <<d + 1, e - 1>>,
         hasEndVerse |-> range, endVerse |-> <<g, h - 1>>,
         end |-> IF range THEN h ELSE e]

\* ((?:[123]|I{1,3})\s*)? at index i: the indexes where the book can start, in
\* the order the alternatives are tried (a digit; three, two, one I; no
\* prefix).
bookStarts(s, i) ==
    LET n == Span(s, i, {"I"}) - i
        romans == IF n >= 3 THEN <<3, 2, 1>> ELSE IF n = 2 THEN <<2, 1>>
                  ELSE IF n = 1 THEN <<1>> ELSE <<>>
    IN  (IF s[i] \in {"1", "2", "3"} THEN <<Span(s, i + 1, Ws)>> ELSE <<>>)
        \o [k \in 1..Len(romans) |-> Span(s, i + romans[k], Ws)]
        \o <<i>>

\* verseRegex tried at index i.
verseRegex(s, i) ==
    LET ps == bookStarts(s, i)
        oks == {k \in 1..Len(ps) : verseTail(s, ps[k]).ok}
        p == ps[Min(oks)]
        t == verseTail(s, p)
    IN  IF wordBoundary(s, i) /\ oks # {}
        THEN [ok |-> TRUE, from |-> i, book |-> p, bookEnd |-> t.bookEnd,
              chapter |-> t.chapter, verse |-> t.verse,
              hasEndVerse |-> t.hasEndVerse, endVerse |-> t.endVerse,
              end |-> t.end]
        ELSE [ok |-> FALSE]

RefLy == <<"h", "t", "t", "p", "s", ":", "/", "/", "r", "e", "f", ".", "l", "y", "/">>

\* Variant: the end verse is left out of the reference.
logosRefNoRange(bookCode, chapter, verse, hasEndVerse, endVerse) ==
    bookCode \o chapter \o <<".">> \o verse

\* endVerse ? `${bookCode}${chapter}.${verse}-${endVerse}`
\*          : `${bookCode}${chapter}.${verse}`
logosRef(bookCode, chapter, verse, hasEndVerse, endVerse) ==
    IF hasEndVerse
    THEN bookCode \o chapter \o <<".">> \o verse \o <<"-">> \o endVerse
    ELSE bookCode \o chapter \o <<".">> \o verse

\* The replacer callback on the match m of s.
replaceVerse(s, m, logosVersion) ==
    LET match == SubSeq(s, m.from, m.end - 1)
        bookCode == bookCodeOf(normalizeBook(SubSeq(s, m.from, m.bookEnd - 1)))
        ref == logosRef(bookCode,
                        SubSeq(s, m.chapter[1], m.chapter[2]),
                        SubSeq(s, m.verse[1], m.verse[2]),
                        m.hasEndVerse,
                        SubSeq(s, m.endVerse[1], m.endVerse[2]))
    IN  IF bookCode = Null THEN match
        ELSE <<"[">> \o match \o <<"]", "(">> \o RefLy \o ref \o <<";">>
                  \o logosVersion \o <<")">>

\* Variant: the scan resumes one character after the end of a match.
RECURSIVE replaceVersesSkipping(_, _, _)
replaceVersesSkipping(s, i, logosVersion) ==
    IF i > Len(s) THEN <<>>
    ELSE LET m == verseRegex(s, i)
         IN  IF m.ok
             THEN replaceVerse(s, m, logosVersion)
                      \o replaceVersesSkipping(s, m.end + 1, logosVersion)
             ELSE <<s[i]>> \o replaceVersesSkipping(s, i + 1, logosVersion)

\* text.replace(verseRegex, ...) from index i on: the matches are taken from
\* left to right and do not overlap.
RECURSIVE replaceVerses(_, _, _)
replaceVerses(s, i, logosVersion) ==
    IF i > Len(s) THEN <<>>
    ELSE LET m == verseRegex(s, i)
         IN  IF m.ok
             THEN replaceVerse(s, m, logosVersion)
                      \o replaceVerses(s, m.end, logosVersion)
             ELSE <<s[i]>> \o replaceVerses(s, i + 1, logosVersion)

linkBibleVerses(text, version) == replaceVerses(text, 1, logosVersionOf(version))

LinkFrags ==
    { <<"I">>, <<"I", "I">>, <<"3">>, <<" ">>, <<"s">>, <<".">>,
      <<"J", "o", "h", "n">>,
      <<"c", "o", "n", "s", "t", "r", "u", "c", "t", "o", "r">>,
      <<" ", "3", ":", "1", "6">>,
      <<"-", "1", "8">> }

Versions == { <<"E", "S", "V">>, <<"k", "j", "v">> }

\* linkBibleVerses(mainText, this.settings.bibleTranslation)
Link ==
    /\ pc = "input"
    /\ result' = linkBibleVerses(input.text, input.version)
    /\ pc' = "linked"
    /\ UNCHANGED <<input, plugin>>

InitLink ==
    /\ input \in [text : Texts(LinkFrags), version : Versions]
    /\ pc = "input"
    /\ result = NoResult
    /\ NotLoaded

NextLink == Link

SpecLink == InitLink /\ [][NextLink]_vars

----------------------------------------------------------------------------
\* The paste command (handlePasteLogosReference).

\* Largest number of paste commands that are invoked.
MaxCommands == 2

Procs == 1..MaxCommands

\* parseLogosClipboard of utils/clipboard-parser, the one the command
\* imports: clipboard.split(/\n(?=@)/), parts[0].trim(),
\* parts[1]?.trim() || "", then the pages patterns.
parseLogosClipboardUtils(clipboard) ==
    LET cuts == {i \in 1..Len(clipboard) :
                    clipboard[i] = "\n" /\ CharAt(clipboard, i + 1, "@")}
        c1 == Min(cuts)
        c2 == Min({i \in cuts \cup {Len(clipboard) + 1} : i > c1})
        bibtex == IF cuts = {} THEN <<>>
                  ELSE trim(SubSeq(clipboard, c1 + 1, c2 - 1))
    IN  [mainText |-> IF cuts = {} THEN trim(clipboard)
                      ELSE trim(SubSeq(clipboard, 1, c1 - 1)),
         bibtex |-> removePages(bibtex),
         page |-> pageMatch(bibtex)]

\* What the clipboard holds when a command reads it: the plain text, and the
\* markdown of its text/html item (Null when there is none or reading it
\* fails).
Clipboards ==
    { [plain |-> <<"q">>, html |-> Null],
      [plain |-> <<"q", "\n", "@", "b", "{", "k", ",", "}">>,
       html |-> <<"_", "q", "_", "\n", "@", "b", "{", "k", ",", "}">>],
      [plain |-> <<"q", "\n", "@", "b", "{", "k", "}">>, html |-> Null],
      [plain |-> <<"q">>,
       html |-> <<"q", "\n", "@", "b", "{", "j", ",", "}">>] }

\* view.file of the command: no file, or the note being edited.
Notes == {<<"n">>}

Views == Notes \cup {Null}

\* bibtex after lines 55-90: the plain text's record, else the record of the
\* markdown.
clipboardBibtex(clipboard) ==
    LET plainBibtex == parseLogosClipboardUtils(clipboard.plain).bibtex
    IN  IF plainBibtex = <<>> /\ clipboard.html # Null
           /\ parseLogosClipboardUtils(clipboard.html).bibtex # <<>>
        THEN parseLogosClipboardUtils(clipboard.html).bibtex
        ELSE plainBibtex

\* `${noteName}.md`, with the default settings (no folder, the note is named
\* by the cite key, which has no character that sanitizeNoteName removes).
filePathOf(citeKey) == citeKey \o <<".", "m", "d">>

Paths ==
    {filePathOf(extractCiteKey(clipboardBibtex(c)).citeKey) :
        c \in {c \in Clipboards : ~extractCiteKey(clipboardBibtex(c)).threw}}

\* What getAbstractFileByPath finds at a path: nothing, something that is not
\* a file, or a note with its citations.
Absent == [kind |-> "absent"]

NotAFile == [kind |-> "folder"]

NoteWith(citations) == [kind |-> "file", citations |-> citations]

Idle == [pc |-> "idle", file |-> Null, clipboard |-> Null, bibtex |-> Null,
         citeKey |-> Null, blockId |-> Null, refNote |-> Null]

\* Variant: the counter is set by the first paste into a note and kept
\* afterwards.
nextCountersFirstOnly(counters, notePath) ==
    [counters EXCEPT ![notePath] = IF @ = 0 THEN 1 ELSE @]

\* if (!counters[notePath]) counters[notePath] = 1 else counters[notePath]++
nextCounters(counters, notePath) ==
    [counters EXCEPT ![notePath] = IF @ = 0 THEN 1 ELSE @ + 1]

\* Variant: the block counter is advanced before the record is looked at.
generateCountFirst(c, counters) ==
    LET bibtex == clipboardBibtex(c.clipboard)
        key == extractCiteKey(bibtex)
        counted == nextCounters(counters, c.file)
    IN  IF bibtex = <<>>
        THEN [cmd |-> [c EXCEPT !.pc = "noRecord", !.bibtex = bibtex],
              counters |-> counted, saved |-> FALSE]
        ELSE IF key.threw
        THEN [cmd |-> [c EXCEPT !.pc = "threw", !.bibtex = bibtex],
              counters |-> counted, saved |-> FALSE]
        ELSE [cmd |-> [c EXCEPT !.pc = "saving", !.bibtex = bibtex,
                                !.citeKey = key.citeKey,
                                !.blockId = <<key.citeKey, counted[c.file]>>],
              counters |-> counted, saved |-> TRUE]

\* Lines 55-132, run once the clipboard was read: the record is looked for
\* (Notice and return when there is none), the cite key extracted (the
\* exception ends the command), the block counter advanced and saveSettings
\* called.
generate(c, counters) ==
    LET bibtex == clipboardBibtex(c.clipboard)
        key == extractCiteKey(bibtex)
        counted == nextCounters(counters, c.file)
    IN  IF bibtex = <<>>
        THEN [cmd |-> [c EXCEPT !.pc = "noRecord", !.bibtex = bibtex],
              counters |-> counters, saved |-> FALSE]
        ELSE IF key.threw
        THEN [cmd |-> [c EXCEPT !.pc = "threw", !.bibtex = bibtex],
              counters |-> counters, saved |-> FALSE]
        ELSE [cmd |-> [c EXCEPT !.pc = "saving", !.bibtex = bibtex,
                                !.citeKey = key.citeKey,
                                !.blockId = <<key.citeKey, counted[c.file]>>],
              counters |-> counted, saved |-> TRUE]

\* `[[${sourceBasename}#^${blockId}]]`
linkBackOf(c) == <<c.file, c.blockId>>

\* The command is invoked: without a file it ends with a Notice, else it
\* awaits the clipboard.
Invoke(p) ==
    /\ cmd[p].pc = "idle"
    /\ \E file \in Views, clipboard \in Clipboards :
          cmd' = [cmd EXCEPT ![p] =
                     IF file = Null THEN [@ EXCEPT !.pc = "noFile"]
                     ELSE [@ EXCEPT !.pc = "reading", !.file = file,
                                    !.clipboard = clipboard]]
    /\ UNCHANGED <<input, pc, result, citationCounters, savedData, editor, vault>>

\* The clipboard was read: lines 55-132 up to the await of saveSettings.
Generate(p) ==
    /\ cmd[p].pc = "reading"
    /\ LET g == generate(cmd[p], citationCounters)
       IN  /\ cmd' = [cmd EXCEPT ![p] = g.cmd]
           /\ citationCounters' = g.counters
           /\ savedData' = IF g.saved THEN g.counters ELSE savedData
    /\ UNCHANGED <<input, pc, result, editor, vault>>

\* The settings were saved: the callout is inserted (lines 134-153) and
\* createOrUpdateReferenceFile looks the path up (lines 170-172, 206-209).
Insert(p) ==
    /\ cmd[p].pc = "saving"
    /\ editor' = Append(editor, [file |-> cmd[p].file, blockId |-> cmd[p].blockId])
    /\ cmd' = [cmd EXCEPT ![p].pc =
                  IF vault[filePathOf(cmd[p].citeKey)] = Absent THEN "creating"
                  ELSE IF vault[filePathOf(cmd[p].citeKey)] = NotAFile THEN "notAFile"
                  ELSE "readingNote"]
    /\ UNCHANGED <<input, pc, result, citationCounters, savedData, vault>>

\* await this.app.vault.create(filePath, content): fails when the path exists
\* by now.
Create(p) ==
    /\ cmd[p].pc = "creating"
    /\ IF vault[filePathOf(cmd[p].citeKey)] = Absent
       THEN /\ vault' = [vault EXCEPT ![filePathOf(cmd[p].citeKey)] =
                            NoteWith(<<linkBackOf(cmd[p])>>)]
            /\ cmd' = [cmd EXCEPT ![p].pc = "done"]
       ELSE /\ cmd' = [cmd EXCEPT ![p].pc = "createFailed"]
            /\ UNCHANGED vault
    /\ UNCHANGED <<input, pc, result, citationCounters, savedData, editor>>

\* const refNote = await this.app.vault.read(abstractFile)
ReadNote(p) ==
    /\ cmd[p].pc = "readingNote"
    /\ cmd' = [cmd EXCEPT ![p].pc = "modifying",
                          ![p].refNote = vault[filePathOf(cmd[p].citeKey)]]
    /\ UNCHANGED <<input, pc, result, citationCounters, savedData, editor, vault>>

\* await this.app.vault.modify(abstractFile, updatedContent), where
\* updatedContent is the note as it was read with the citation line added
\* unless it holds the link back already.
Modify(p) ==
    /\ cmd[p].pc = "modifying"
    /\ vault' = [vault EXCEPT ![filePathOf(cmd[p].citeKey)] =
                    IF \E k \in 1..Len(cmd[p].refNote.citations) :
                           cmd[p].refNote.citations[k] = linkBackOf(cmd[p])
                    THEN cmd[p].refNote
                    ELSE NoteWith(Append(cmd[p].refNote.citations, linkBackOf(cmd[p])))]
    /\ cmd' = [cmd EXCEPT ![p].pc = "done"]
    /\ UNCHANGED <<input, pc, result, citationCounters, savedData, editor>>

\* The plugin is loaded: the counters are those of the saved data, the editor
\* has no callout of a command yet, and no command runs.
InitPaste ==
    /\ input = <<>>
    /\ pc = "input"
    /\ result = NoResult
    /\ citationCounters \in [Notes -> 0..1]
    /\ savedData = citationCounters
    /\ editor = <<>>
    /\ vault \in [Paths -> {Absent, NotAFile, NoteWith(<<>>)}]
    /\ cmd = [p \in Procs |-> Idle]

NextPaste ==
    \E p \in Procs :
        \/ Invoke(p)
        \/ Generate(p)
        \/ Insert(p)
        \/ Create(p)
        \/ ReadNote(p)
        \/ Modify(p)

SpecPaste == InitPaste /\ [][NextPaste]_vars

----------------------------------------------------------------------------
\* The six functions that do not throw, each applied to the same texts.

TotalFrags ==
    { <<"q">>, <<" ">>,
      <<"@", "b", "{", "k", ",">>,
      <<"p", "a", "g", "e", "s", "=", "{", "1", "}">>,
      <<"t", "i", "t", "l", "e", "=", "{", "T", "}">>,
      <<"_", "i", "_">>,
      <<"p", ".", " ", "4">>,
      <<"J", "n", " ", "3", ":", "1", "6">> }

\* extractPagesFromBibtex(bibtex)
PagesFromBibtex ==
    /\ pc = "input"
    /\ result' = extractPagesFromBibtex(input)
    /\ pc' = "pagesSearched"
    /\ UNCHANGED <<input, plugin>>

\* linkBibleVerses(text), version = 'esv' by default
LinkDefault ==
    /\ pc = "input"
    /\ result' = linkBibleVerses(input, <<"e", "s", "v">>)
    /\ pc' = "linkedDefault"
    /\ UNCHANGED <<input, plugin>>

InitTotal == Start(TotalFrags)

NextTotal ==
    \/ Parse
    \/ PageNumber
    \/ PagesFromBibtex
    \/ BookTitle
    \/ Clean
    \/ LinkDefault

SpecTotal == InitTotal /\ [][NextTotal]_vars

----------------------------------------------------------------------------
\* parseLogosClipboard of utils/clipboard-parser applied on its own.

UtilsFrags ==
    { <<"q">>, <<" ">>, <<"\n">>,
      <<"@", "b", "{", "k", ",">>,
      <<"p", "a", "g", "e", "s", "=", "{", "1", "}", ",">>,
      <<"}">> }

\* parseLogosClipboard(clipboard), as the tests import it
ParseUtils ==
    /\ pc = "input"
    /\ result' = parseLogosClipboardUtils(input)
    /\ pc' = "parsedUtils"
    /\ UNCHANGED <<input, plugin>>

InitUtils == Start(UtilsFrags)

NextUtils == ParseUtils

SpecUtils == InitUtils /\ [][NextUtils]_vars

----------------------------------------------------------------------------
\* The parser followed by the cite key extraction, as the paste command
\* chains them.

ComposeFrags ==
    { <<"q">>, <<" ">>, <<"@">>, <<"}">>,
      <<"@", "b", "{", "k", ",">>,
      <<"@", "b", "{", "k">>,
      <<"p", "a", "g", "e", "s", "=", "{", "1", "}", ",">> }

\* if (!bibtex) return; ... const citeKey = extractCiteKey(bibtex)
CiteKeyOfRecord ==
    /\ pc = "parsed"
    /\ result.bibtex # <<>>
    /\ result' = [parsed |-> result, key |-> extractCiteKey(result.bibtex)]
    /\ pc' = "composed"
    /\ UNCHANGED <<input, plugin>>

InitCompose == Start(ComposeFrags)

NextCompose == Parse \/ CiteKeyOfRecord

SpecCompose == InitCompose /\ [][NextCompose]_vars

----------------------------------------------------------------------------
\* linkBibleVerses applied to its own output.

\* linkBibleVerses(linked, version)
LinkAgain ==
    /\ pc = "linked"
    /\ result' = [once |-> result, twice |-> linkBibleVerses(result, input.version)]
    /\ pc' = "relinked"
    /\ UNCHANGED <<input, plugin>>

InitRelink == InitLink

NextRelink == Link \/ LinkAgain

SpecRelink == InitRelink /\ [][NextRelink]_vars

----------------------------------------------------------------------------
\* cleanFormattedText applied to its own output.

\* cleanFormattedText(cleaned)
CleanAgain ==
    /\ pc = "cleaned"
    /\ result' = [once |-> result, twice |-> cleanFormattedText(result)]
    /\ pc' = "recleaned"
    /\ UNCHANGED <<input, plugin>>

InitReclean == InitClean

NextReclean == Clean \/ CleanAgain

SpecReclean == InitReclean /\ [][NextReclean]_vars

----------------------------------------------------------------------------
\* Notions the properties are stated with.

Max(S) == CHOOSE i \in S : \A j \in S : i >= j

Chars(s) == {s[k] : k \in 1..Len(s)}

\* No leading and no trailing whitespace.
IsTrimmed(s) == s = <<>> \/ (s[1] \notin Ws /\ s[Len(s)] \notin Ws)

\* Start indices of the whitespace runs that immediately precede '@<word>{'.
Boundaries(t) ==
    {i \in 1..Len(t) : /\ t[i] \in Ws
                       /\ (i = 1 \/ t[i - 1] \notin Ws)
                       /\ MarkerAt(t, Span(t, i, Ws))}

\* Some '@<word>{' of s is preceded by whitespace.
HasWsMarker(s) == \E i \in 2..Len(s) : s[i - 1] \in Ws /\ MarkerAt(s, i)

\* The text parseLogosClipboard takes for the bibliographic record, before
\* the pages field is removed.
RecordSegment(clip) ==
    LET t == trim(clip)
    IN  IF CharAt(t, 1, "@") THEN t
        ELSE IF Boundaries(t) = {} THEN <<>>
        ELSE trim(split(t)[2])

\* A field of s whose key is exactly 'pages' (any letter case) starts at i.
PagesKeyAt(s, i) ==
    /\ LitAt(s, i, PagesKey, TRUE)
    /\ (i = 1 \/ s[i - 1] \notin Word)
    /\ CharAt(s, Span(s, i + Len(PagesKey), Ws), "=")

\* The value of the pages field at i when it is delimited by braces or by
\* double quotes and not empty, Null otherwise.
DelimitedPagesValue(s, i) ==
    LET a == Span(s, i + Len(PagesKey), Ws)
        b == Span(s, a + 1, Ws)
        close == IF CharAt(s, b, "{") THEN "}" ELSE "\""
        c == SpanNot(s, b + 1, {close})
    IN  IF /\ PagesKeyAt(s, i)
           /\ b <= Len(s) /\ s[b] \in {"{", "\""}
           /\ c > b + 1
           /\ c <= Len(s)
        THEN SubSeq(s, b + 1, c - 1)
        ELSE Null

DelimitedPagesFields(s) == {i \in 1..Len(s) : DelimitedPagesValue(s, i) # Null}

----------------------------------------------------------------------------
\* C1: when the trimmed input does not start with '@' and has whitespace-
\* preceded markers '@<word>{', the quote is everything before the LAST such
\* boundary and the record everything after it.
C1_SplitAtLastBoundary ==
    LET t == trim(input)
        b == Max(Boundaries(t))
    IN  (pc = "parsed" /\ ~CharAt(t, 1, "@") /\ Boundaries(t) # {}) =>
            /\ result.mainText = trim(stripResourceLink(t, trim(SubSeq(t, 1, b - 1))))
            /\ result.bibtex = removePages(trim(SubSeq(t, Span(t, b, Ws), Len(t))))

\* C2: when the trimmed input starts with '@', mainText is the empty string
\* and the returned record contains the marker '@'.
C2_RecordOnly ==
    (pc = "parsed" /\ CharAt(trim(input), 1, "@")) =>
        /\ result.mainText = <<>>
        /\ "@" \in Chars(result.bibtex)

\* A record-only input with leading whitespace that also contains a later
\* whitespace-preceded marker has been parsed.
C2_Witness ==
    /\ pc = "parsed"
    /\ CharAt(trim(input), 1, "@")
    /\ input[1] \in Ws
    /\ HasWsMarker(trim(input))

\* C3: when the input has no whitespace-preceded marker '@<word>{' and its
\* trimmed form does not start with '@', the record is empty, page is null
\* and mainText is the trimmed input.
C3_NoMarker ==
    (pc = "parsed" /\ ~HasWsMarker(input) /\ ~CharAt(trim(input), 1, "@")) =>
        /\ result.bibtex = <<>>
        /\ result.page = Null
        /\ result.mainText = trim(input)

\* An input with a marker that no whitespace precedes, and with whitespace
\* before a bare '@', has been parsed as a quote only.
C3_Witness ==
    /\ pc = "parsed"
    /\ ~HasWsMarker(input)
    /\ ~CharAt(trim(input), 1, "@")
    /\ \E i \in 1..Len(input) : MarkerAt(input, i)
    /\ \E i \in 2..Len(input) : input[i - 1] \in Ws /\ input[i] = "@"

\* C4: when the record segment has a pages field whose value is delimited by
\* braces or by quotes, page is that value and the returned record has no
\* pages field any more.
C4_PagesExtracted ==
    LET rec == RecordSegment(input)
    IN  (pc = "parsed" /\ DelimitedPagesFields(rec) # {}) =>
            /\ result.page = DelimitedPagesValue(rec, Min(DelimitedPagesFields(rec)))
            /\ \A i \in 1..Len(result.bibtex) : ~PagesKeyAt(result.bibtex, i)

\* C5: searching the record returned by parseLogosClipboard for the pages
\* pattern finds nothing.
C5_PagesRoundTrip ==
    pc = "searched" => result.pagesFound = Null

\* C6: mainText, the record and a non-null page have no leading and no
\* trailing whitespace.
C6_FieldsTrimmed ==
    pc = "parsed" =>
        /\ IsTrimmed(result.mainText)
        /\ IsTrimmed(result.bibtex)
        /\ (result.page # Null => IsTrimmed(result.page))

\* C7: when the record segment has no field keyed 'pages', page is null and
\* the returned record is the record segment unchanged.
C7_NoPagesField ==
    LET rec == RecordSegment(input)
    IN  (pc = "parsed" /\ \A i \in 1..Len(rec) : ~PagesKeyAt(rec, i)) =>
            /\ result.page = Null
            /\ result.bibtex = rec

\* C8: when the input is split into a quote and a record, no ref.ly link
\* remains in mainText.
C8_NoResourceLinkLeft ==
    (pc = "parsed" /\ ~CharAt(trim(input), 1, "@") /\ Boundaries(trim(input)) # {}) =>
        reflyMatch(result.mainText) = Null

\* C9: when the record matches the header pattern, the cite key is not empty.
C9_CiteKeyNonEmpty ==
    (pc = "keyed" /\ headerComma(input) > 0) =>
        (~result.threw /\ result.citeKey # <<>>)

\* C10: when the record matches the header pattern, the cite key has only
\* ASCII letters, digits and hyphens, no two adjacent hyphens, no hyphen at
\* either end, and sanitizing it again returns it unchanged.
C10_CiteKeySanitized ==
    (pc = "keyed" /\ headerComma(input) > 0) =>
        LET k == result.citeKey
        IN  /\ ~result.threw
            /\ Chars(k) \subseteq Alnum \cup {"-"}
            /\ "_" \notin Chars(k)
            /\ \A i \in 1..(Len(k) - 1) : ~(k[i] = "-" /\ k[i + 1] = "-")
            /\ ~CharAt(k, 1, "-")
            /\ ~CharAt(k, Len(k), "-")
            /\ sanitizeCiteKey(k) = k

\* An identifier that begins and ends with characters that are replaced has
\* been sanitized to a non-empty key.
C10_Witness ==
    /\ pc = "keyed"
    /\ headerComma(input) > 0
    /\ Head(headerIdentifier(input)) \notin Alnum
    /\ headerIdentifier(input)[Len(headerIdentifier(input))] \notin Alnum
    /\ result.citeKey # <<>>

\* The record begins with '@', one or more word characters, '{', one or more
\* characters that are not commas, and a comma.
BeginsWithHeader(s) ==
    \E j \in 3..Len(s) : \E c \in (j + 2)..Len(s) :
        /\ s[1] = "@"
        /\ \A k \in 2..(j - 1) : s[k] \in Word
        /\ s[j] = "{"
        /\ \A k \in (j + 1)..(c - 1) : s[k] # ","
        /\ s[c] = ","

\* C11: extractCiteKey throws exactly when the record does not begin with the
\* header '@<word>{<identifier>,'; on a record with the header it returns a
\* key.
C11_ThrowsIffNoHeader ==
    pc = "keyed" =>
        /\ result.threw <=> ~BeginsWithHeader(input)
        /\ ~result.threw => result.citeKey # Null

\* A record that has '@', a word, '{' and a comma but an empty identifier has
\* been rejected.
C11_Witness ==
    /\ pc = "keyed"
    /\ result.threw
    /\ Len(input) >= 4
    /\ input[1] = "@"
    /\ input[2] \in Word
    /\ \E j \in 3..(Len(input) - 1) : input[j] = "{" /\ input[j + 1] = ","


\* The suffix of s that starts at i is a page marker with the given optional
\* parts (lead: '(' , '[' or space; np: one or two p; nd: '.'; ns: space;
\* rg: range; cb: ')' or ']'; fd: final '.'): the bounds of the text from its
\* 'p' through its last digit, or <<0, 0>>.
PageMarkerText(s, i, lead, np, nd, ns, rg, cb, fd) ==
    LET a == i + lead
        x1 == a + np
        x2 == x1 + nd
        x3 == x2 + ns
        x4 == Span(s, x3, Digits)
        x5 == IF rg = 1 THEN Span(s, x4 + 1, Digits) ELSE x4
        x6 == x5 + cb
        x7 == x6 + fd
    IN  IF /\ lead = 1 => s[i] \in {"(", "[", " "}
           /\ \A k \in a..(x1 - 1) : k <= Len(s) /\ s[k] \in {"p", "P"}
           /\ nd = 1 => CharAt(s, x1, ".")
           /\ ns = 1 => CharAt(s, x2, " ")
           /\ x4 > x3
           /\ rg = 1 => (x4 <= Len(s) /\ s[x4] \in {"-", EnDash} /\ x5 > x4 + 1)
           /\ cb = 1 => (x5 <= Len(s) /\ s[x5] \in {")", "]"})
           /\ fd = 1 => CharAt(s, x6, ".")
           /\ x7 = Len(s) + 1
        THEN <<a, x5 - 1>>
        ELSE <<0, 0>>

\* <<i, from, to>> for every way the suffix from i is a page marker.
PageMarkersAt(s, i) ==
    {<<i, t[1], t[2]>> :
        t \in {PageMarkerText(s, i, o[1], o[2], o[3], o[4], o[5], o[6], o[7]) :
                 o \in {0, 1} \X {1, 2} \X {0, 1} \X {0, 1} \X {0, 1} \X {0, 1} \X {0, 1}}}
    \ {<<i, 0, 0>>}

PageMarkers(s) == UNION {PageMarkersAt(s, i) : i \in 1..Len(s)}

\* C14: when the text ends with a page marker, page is the marker text from
\* its 'p' through its last digit (of the marker that begins earliest) and
\* cleanedText is the text before the marker, trimmed; otherwise page is null
\* and cleanedText is the trimmed input.
C14_PageNumber ==
    pc = "paged" =>
        LET ms == PageMarkers(input)
            first == Min({m[1] : m \in ms})
        IN  IF ms = {}
            THEN result.page = Null /\ result.cleanedText = trim(input)
            ELSE \A m \in ms : m[1] = first =>
                    /\ result.page = SubSeq(input, m[2], m[3])
                    /\ result.cleanedText = trim(SubSeq(input, 1, first - 1))

\* A text that ends with a marker in parentheses with a page range has been
\* taken apart into a non-empty text and the page.
C14_Witness ==
    /\ pc = "paged"
    /\ result.page # Null
    /\ \E k \in 1..Len(result.page) : result.page[k] \in {"-", EnDash}
    /\ result.cleanedText # <<>>
    /\ input[Len(input)] = ")"
    /\ \E k \in 1..Len(input) : input[k] = "("

----------------------------------------------------------------------------
\* A field of s whose key is exactly 'title' (any letter case) starts at i.
TitleKeyAt(s, i) ==
    /\ LitAt(s, i, TitleKey, TRUE)
    /\ (i = 1 \/ s[i - 1] \notin Word)
    /\ CharAt(s, Span(s, i + Len(TitleKey), Ws), "=")

\* The value of the title field at i when it is delimited by braces and not
\* empty, Null otherwise.
BracedTitleValue(s, i) ==
    LET a == Span(s, i + Len(TitleKey), Ws)
        b == Span(s, a + 1, Ws)
        c == SpanNot(s, b + 1, {"}"})
    IN  IF TitleKeyAt(s, i) /\ CharAt(s, b, "{") /\ c > b + 1 /\ c <= Len(s)
        THEN SubSeq(s, b + 1, c - 1)
        ELSE Null

BracedTitleFields(s) == {i \in 1..Len(s) : BracedTitleValue(s, i) # Null}

\* C15: the book title is the brace-delimited value of the first field keyed
\* 'title' (any letter case), and it is null for a record that has no field
\* keyed exactly 'title'.
C15_BookTitle ==
    pc = "titled" =>
        /\ BracedTitleFields(input) # {} =>
               result = BracedTitleValue(input, Min(BracedTitleFields(input)))
        /\ (\A i \in 1..Len(input) : ~TitleKeyAt(input, i)) => result = Null

----------------------------------------------------------------------------
\* s has t as a contiguous part.
Contains(s, t) == \E i \in 1..(Len(s) - Len(t) + 1) : LitAt(s, i, t, FALSE)

\* A run of exactly n underscores starts at i.
UnderscoreRun(s, i, n) ==
    /\ i >= 1 /\ i + n - 1 <= Len(s)
    /\ \A k \in i..(i + n - 1) : s[k] = "_"
    /\ (i = 1 \/ s[i - 1] # "_")
    /\ (i + n - 1 = Len(s) \/ s[i + n] # "_")

\* The index where the line of s that holds index i starts.
LineStart(s, i) == Max({1} \cup {k + 1 : k \in {k \in 1..(i - 1) : s[k] \in LineTerminators}})

\* Before index i, the line holds only single and double underscores, an even
\* number of each: every delimiter before i is paired before i.
PairedBefore(s, i) ==
    LET line == LineStart(s, i)..(i - 1)
        runs(n) == {k \in line : UnderscoreRun(s, k, n)}
    IN  /\ \A k \in line : s[k] = "_" =>
               \E n \in {1, 2} : \E r \in {k - 1, k} : r \in line /\ UnderscoreRun(s, r, n) /\ k < r + n
        /\ Cardinality(runs(1)) % 2 = 0
        /\ Cardinality(runs(2)) % 2 = 0

\* s[i..j] is a span delimited by runs of exactly n underscores, with a
\* content free of underscores and line ends, whose opening delimiter is not
\* the closing delimiter of an earlier span of its line.
UnderscoreSpan(s, i, j, n) ==
    /\ UnderscoreRun(s, i, n)
    /\ j - n + 1 >= i + n
    /\ UnderscoreRun(s, j - n + 1, n)
    /\ \A k \in (i + n)..(j - n) : s[k] # "_" /\ s[k] \notin LineTerminators
    /\ PairedBefore(s, i)

SpanContent(s, i, j, n) == SubSeq(s, i + n, j - n)

\* C16: every span delimited by double underscores on one line appears in the
\* output as '<sup>span</sup>', every span delimited by single underscores
\* appears as '*span*', and no line of the output keeps two underscores.
C16_DoubleBeforeSingle ==
    pc = "cleaned" =>
        /\ \A i, j \in 1..Len(input) :
              /\ UnderscoreSpan(input, i, j, 2) =>
                     Contains(result, SupOpen \o SpanContent(input, i, j, 2) \o SupClose)
              /\ UnderscoreSpan(input, i, j, 1) =>
                     Contains(result, <<"*">> \o SpanContent(input, i, j, 1) \o <<"*">>)
        /\ \A i, j \in 1..Len(result) :
              (i < j /\ result[i] = "_" /\ result[j] = "_") =>
                  \E k \in i..j : result[k] \in LineTerminators

\* A text with a double-underscore span and a single-underscore span has been
\* cleaned.
C16_Witness ==
    /\ pc = "cleaned"
    /\ \E i, j \in 1..Len(input) : UnderscoreSpan(input, i, j, 2) /\ j > i + 3
    /\ \E i, j \in 1..Len(input) : UnderscoreSpan(input, i, j, 1) /\ j > i + 1
    /\ Contains(result, SupOpen)

----------------------------------------------------------------------------
\* A run of exactly n asterisks starts at i.
AsteriskRun(s, i, n) ==
    /\ i >= 1 /\ i + n - 1 <= Len(s)
    /\ \A k \in i..(i + n - 1) : s[k] = "*"
    /\ (i = 1 \/ s[i - 1] # "*")
    /\ (i + n - 1 = Len(s) \/ s[i + n] # "*")

\* s[i..j] is a span delimited by single or by double asterisks on one line.
AsteriskSpan(s, i, j) ==
    \E n \in {1, 2} :
        /\ AsteriskRun(s, i, n)
        /\ j - n + 1 > i + n
        /\ AsteriskRun(s, j - n + 1, n)
        /\ \A k \in (i + n)..(j - n) : s[k] # "*" /\ s[k] \notin LineTerminators

\* C17 as stated: an input without underscore is returned unchanged, and
\* every asterisk-delimited span of the input appears unchanged in the output.
C17_AsteriskSpansKept ==
    pc = "cleaned" =>
        /\ "_" \notin Chars(input) => result = input
        /\ \A i, j \in 1..Len(input) :
              AsteriskSpan(input, i, j) => Contains(result, SubSeq(input, i, j))

\* C17 amended: an input without underscore is returned unchanged, and every
\* asterisk-delimited span of the input that holds no underscore appears
\* unchanged in the output.
C17_UnderscoreFreeSpansKept ==
    pc = "cleaned" =>
        /\ "_" \notin Chars(input) => result = input
        /\ \A i, j \in 1..Len(input) :
              (AsteriskSpan(input, i, j) /\ "_" \notin Chars(SubSeq(input, i, j))) =>
                  Contains(result, SubSeq(input, i, j))

\* A text with a double-asterisk span and an underscore-delimited span has
\* been cleaned, and the underscore delimiters were rewritten.
C17_Witness ==
    /\ pc = "cleaned"
    /\ result # input
    /\ \E i, j \in 1..Len(input) :
          /\ AsteriskSpan(input, i, j)
          /\ AsteriskRun(input, i, 2)
          /\ "_" \notin Chars(SubSeq(input, i, j))
          /\ Contains(result, SubSeq(input, i, j))

----------------------------------------------------------------------------
\* The matches of the reference pattern in s from index i on, from left to
\* right and not overlapping.
RECURSIVE VerseMatches(_, _)
VerseMatches(s, i) ==
    IF i > Len(s) THEN {}
    ELSE IF verseRegex(s, i).ok
         THEN {verseRegex(s, i)} \cup VerseMatches(s, verseRegex(s, i).end)
         ELSE VerseMatches(s, i + 1)

MatchText(s, m) == SubSeq(s, m.from, m.end - 1)

\* Prefix and book name of the match, lowercased and without whitespace.
BookToken(s, m) == removeWhitespace(toLowerCase(SubSeq(s, m.from, m.bookEnd - 1)))

\* The number of letters I the match starts with.
RomanRun(s, m) == Span(s, m.from, {"I"}) - m.from

\* The token of the match with its Roman numeral n written as a digit.
DigitToken(s, m, n) ==
    <<<<"1">>, <<"2">>, <<"3">>>>[n] \o SubSeq(BookToken(s, m), n + 1, Len(BookToken(s, m)))

\* The token the book table is asked for.
LookupToken(s, m) ==
    IF RomanRun(s, m) \in 1..3 THEN DigitToken(s, m, RomanRun(s, m)) ELSE BookToken(s, m)

IsBookKey(token) == Str(token) \in DOMAIN BIBLE_BOOKS

\* The link for the match m of s whose book has the given code.
VerseLink(s, m, code, version) ==
    <<"[">> \o MatchText(s, m) \o <<"]", "(">> \o RefLy \o code
        \o SubSeq(s, m.chapter[1], m.chapter[2]) \o <<".">>
        \o SubSeq(s, m.verse[1], m.verse[2])
        \o (IF m.hasEndVerse
            THEN <<"-">> \o SubSeq(s, m.endVerse[1], m.endVerse[2])
            ELSE <<>>)
        \o <<";">> \o logosVersionOf(version) \o <<")">>

\* C18: every match whose normalized token is a key of the book table appears
\* in the output as '[match](https://ref.ly/' code chapter '.' verse, '-' end
\* verse when a range was matched, ';' resolved translation code ')'.
C18_KnownBookLinked ==
    pc = "linked" =>
        \A m \in VerseMatches(input.text, 1) :
            IsBookKey(normalizeBook(SubSeq(input.text, m.from, m.bookEnd - 1))) =>
                Contains(result,
                         VerseLink(input.text, m,
                                   BIBLE_BOOKS[Str(normalizeBook(SubSeq(input.text, m.from, m.bookEnd - 1)))],
                                   input.version))

\* A reference with a numeric prefix and a verse range was linked, with a
\* translation the version table resolves.
C18_Witness ==
    /\ pc = "linked"
    /\ Str(toLowerCase(input.version)) \in DOMAIN VERSION_MAPPING
    /\ logosVersionOf(input.version) # input.version
    /\ \E m \in VerseMatches(input.text, 1) :
          /\ m.hasEndVerse
          /\ m.book > m.from
          /\ IsBookKey(normalizeBook(SubSeq(input.text, m.from, m.bookEnd - 1)))
          /\ Contains(result, <<";">> \o logosVersionOf(input.version) \o <<")">>)

\* C19: when no match of the input has a normalized token that is a key of
\* the book table, the output is the input.
C19_UnknownBookUnchanged ==
    pc = "linked" =>
        ((\A m \in VerseMatches(input.text, 1) :
              ~IsBookKey(normalizeBook(SubSeq(input.text, m.from, m.bookEnd - 1))))
            => result = input.text)

\* C20: a match that starts with one, two or three letters I whose token,
\* with the numeral written as the digit 1, 2 or 3, is a key of the book table
\* is linked with the code of that key.
C20_RomanLongestFirst ==
    pc = "linked" =>
        \A m \in VerseMatches(input.text, 1) :
            (RomanRun(input.text, m) \in 1..3 /\ IsBookKey(LookupToken(input.text, m))) =>
                Contains(result,
                         VerseLink(input.text, m,
                                   BIBLE_BOOKS[Str(LookupToken(input.text, m))],
                                   input.version))

\* A reference written with the prefix III was linked as a book 3.
C20_Witness ==
    /\ pc = "linked"
    /\ \E m \in VerseMatches(input.text, 1) :
          /\ RomanRun(input.text, m) = 3
          /\ IsBookKey(LookupToken(input.text, m))
          /\ Contains(result, RefLy \o <<"3">>)

----------------------------------------------------------------------------
\* What a paste command can change outside itself.
SideEffects == <<citationCounters, savedData, editor, vault>>

\* The clipboard of command p yields no record, or a record extractCiteKey
\* throws on.
NoUsableRecord(p) ==
    \/ clipboardBibtex(cmd[p].clipboard) = <<>>
    \/ headerComma(clipboardBibtex(cmd[p].clipboard)) = 0

\* C13: a command whose clipboard yields no record, or a record that
\* extractCiteKey throws on, ends in the step that finds this out, and
\* neither that step nor the step that invoked it changes the counters, the
\* saved data, the editor or the vault.
C13_AbortBeforeSideEffects ==
    [][\A p \in Procs :
          /\ (cmd[p].pc = "idle" /\ cmd'[p] # cmd[p]) =>
                 /\ cmd'[p].pc \in {"noFile", "reading"}
                 /\ UNCHANGED SideEffects
          /\ (cmd[p].pc = "reading" /\ cmd'[p] # cmd[p] /\ NoUsableRecord(p)) =>
                 /\ cmd'[p].pc \in {"noRecord", "threw"}
                 /\ UNCHANGED SideEffects
          /\ cmd[p].pc \in {"noRecord", "threw"} => cmd'[p] = cmd[p]]_vars

\* A command has stopped on a record that has no cite key while another one
\* has pasted a callout.
C13_Witness ==
    \E p, q \in Procs :
        /\ cmd[p].pc = "threw"
        /\ cmd[p].bibtex # <<>>
        /\ cmd[q].pc = "done"
        /\ editor # <<>>

----------------------------------------------------------------------------
\* C12: each of the six functions returns a value on every text: none ends
\* with an exception, and a text that cannot hold what the function looks for
\* (no '@', no digit, no '=', no '_', no ':'), the empty text included, gives
\* null, the empty string or the unchanged text.
C12_Total ==
    /\ pc = "parsed" =>
           /\ Thrown \notin {result.mainText, result.bibtex, result.page}
           /\ "@" \notin Chars(input) =>
                  /\ result.mainText = trim(input)
                  /\ result.bibtex = <<>>
                  /\ result.page = Null
    /\ pc = "paged" =>
           /\ Thrown \notin {result.cleanedText, result.page}
           /\ Chars(input) \cap Digits = {} =>
                  /\ result.cleanedText = trim(input)
                  /\ result.page = Null
    /\ pc = "pagesSearched" =>
           /\ result # Thrown
           /\ "=" \notin Chars(input) => result = Null
    /\ pc = "titled" =>
           /\ result # Thrown
           /\ "=" \notin Chars(input) => result = Null
    /\ pc = "cleaned" =>
           /\ result # Thrown
           /\ "_" \notin Chars(input) => result = input
    /\ pc = "linkedDefault" =>
           /\ result # Thrown
           /\ ":" \notin Chars(input) => result = input

\* The book title was looked for in a text that is not empty and has none.
C12_Witness ==
    /\ pc = "titled"
    /\ input # <<>>
    /\ "=" \notin Chars(input)
    /\ result = Null

----------------------------------------------------------------------------
\* The end of a link target: ';' version ')'.
TargetEnd(version) == <<";">> \o logosVersionOf(version) \o <<")">>

\* out from index j on is s from index i on with every match either left as
\* it is or wrapped as '[match](' target ';' version ')', and every other
\* character copied.
RECURSIVE Framed(_, _, _, _, _)
Framed(s, i, out, j, version) ==
    IF i > Len(s) THEN j = Len(out) + 1
    ELSE IF \E m \in VerseMatches(s, 1) : m.from = i
    THEN LET m == CHOOSE m \in VerseMatches(s, 1) : m.from = i
             open == <<"[">> \o MatchText(s, m) \o <<"]", "(">> \o RefLy
             ends == {k \in (j + Len(open))..Len(out) : LitAt(out, k, TargetEnd(version), FALSE)}
         IN  IF LitAt(out, j, open, FALSE) /\ ends # {}
             THEN Framed(s, m.end, out, Min(ends) + Len(TargetEnd(version)), version)
             ELSE /\ LitAt(out, j, MatchText(s, m), FALSE)
                  /\ Framed(s, m.end, out, j + Len(MatchText(s, m)), version)
    ELSE /\ CharAt(out, j, s[i])
         /\ Framed(s, i + 1, out, j + 1, version)

\* s has a digit, a colon and a digit in a row.
HasChapterVerse(s) ==
    \E i \in 1..(Len(s) - 2) : s[i] \in Digits /\ s[i + 1] = ":" /\ s[i + 2] \in Digits

\* C21: the output is the input with some matches wrapped into links and
\* every character outside the matches unchanged and in place, and a text
\* without 'digit:digit' is returned unchanged.
C21_SinglePassFrame ==
    pc = "linked" =>
        /\ Framed(input.text, 1, result, 1, input.version)
        /\ ~HasChapterVerse(input.text) => result = input.text

\* A reference that has text before it was linked.
C21_Witness ==
    /\ pc = "linked"
    /\ result # input.text
    /\ \E m \in VerseMatches(input.text, 1) :
          /\ m.from > 2
          /\ SubSeq(result, 1, m.from) = SubSeq(input.text, 1, m.from - 1) \o <<"[">>

----------------------------------------------------------------------------
\* The index of the only '@' of s when it begins an entry header that stands
\* after a quote and one space or newline, else 0.
EntryAfterQuote(s) ==
    LET ats == {i \in 1..Len(s) : s[i] = "@"}
        i == CHOOSE i \in ats : TRUE
    IN  IF /\ Cardinality(ats) = 1
           /\ i > 2
           /\ MarkerAt(s, i)
           /\ s[i - 1] \in {" ", "\n"}
           /\ s[i - 2] \notin Ws
        THEN i
        ELSE 0

\* C22: when one space or one newline separates the quote from the entry,
\* mainText is the text before the entry and bibtex begins with the entry
\* header.
C22_SeparatorKind ==
    (pc = "parsedUtils" /\ EntryAfterQuote(input) > 0) =>
        /\ result.mainText = trim(SubSeq(input, 1, EntryAfterQuote(input) - 1))
        /\ MarkerAt(result.bibtex, 1)

----------------------------------------------------------------------------
\* C23: every match whose prefix and book are letters only and, lowercased,
\* a key of the book table is linked with the code of that key.
C23_AlphabeticKeyLinked ==
    pc = "linked" =>
        \A m \in VerseMatches(input.text, 1) :
            (/\ Chars(SubSeq(input.text, m.from, m.bookEnd - 1)) \subseteq Letters
             /\ IsBookKey(BookToken(input.text, m))) =>
                Contains(result,
                         VerseLink(input.text, m,
                                   BIBLE_BOOKS[Str(BookToken(input.text, m))],
                                   input.version))

----------------------------------------------------------------------------
\* C24: on a record the parser returned, extractCiteKey does not throw and
\* returns a key.
C24_RecordHasCiteKey ==
    pc = "composed" =>
        /\ ~result.key.threw
        /\ result.key.citeKey # Null

----------------------------------------------------------------------------
\* C25: linking the output of linkBibleVerses again returns it unchanged.
C25_LinkIdempotent ==
    pc = "relinked" => result.twice = result.once

----------------------------------------------------------------------------
\* The reference note at a path holds the link back of a command.
HoldsLinkBack(path, c) ==
    /\ vault[path].kind = "file"
    /\ \E k \in 1..Len(vault[path].citations) :
          vault[path].citations[k] = <<c.file, c.blockId>>

\* The command has inserted its callout and left createOrUpdateReferenceFile.
Finished(c) == c.pc \in {"done", "createFailed", "notAFile"}

\* C26: when two paste commands with the same reference note have both
\* finished, and the path is not taken by something that is not a file, neither
\* failed in vault.create and the note holds the link backs of both.
C26_BothLinkBacks ==
    \A p, q \in Procs :
        (/\ p # q
         /\ Finished(cmd[p])
         /\ Finished(cmd[q])
         /\ cmd[p].citeKey = cmd[q].citeKey
         /\ vault[cmd[p].citeKey \o <<".", "m", "d">>].kind # "folder")
        => /\ cmd[p].pc = "done"
           /\ HoldsLinkBack(cmd[p].citeKey \o <<".", "m", "d">>, cmd[p])

----------------------------------------------------------------------------
\* C27: once a paste command that inserted its callout has finished, the
\* reference note holds the link back to the callout's block.
C27_CalloutHasLinkBack ==
    \A p \in Procs :
        Finished(cmd[p])
        => HoldsLinkBack(cmd[p].citeKey \o <<".", "m", "d">>, cmd[p])

----------------------------------------------------------------------------
\* The step of a command that reaches the generation of its block ID in a
\* note.
GeneratesIdIn(p, note) ==
    /\ cmd[p].pc = "reading"
    /\ cmd'[p].pc = "saving"
    /\ cmd[p].file = note

\* C28: the counter of a note goes up by exactly one in every step in which a
\* command generates a block ID in that note (to 1 when the note had no
\* counter), the ID carries the new count, the counter changes in no other
\* step, and no two callouts pasted into one note have the same block ID.
C28_BlockIdsUnique ==
    /\ [][\A note \in Notes :
             IF \E p \in Procs : GeneratesIdIn(p, note)
             THEN /\ citationCounters'[note] = citationCounters[note] + 1
                  /\ \A p \in Procs :
                        GeneratesIdIn(p, note) =>
                            cmd'[p].blockId[2] = citationCounters'[note]
             ELSE citationCounters'[note] = citationCounters[note]]_vars
    /\ [](\A i, j \in 1..Len(editor) :
             (i # j /\ editor[i].file = editor[j].file)
             => editor[i].blockId # editor[j].blockId)

\* Two callouts with the same cite key were pasted into one note whose counter
\* was 1 before.
C28_Witness ==
    /\ Len(editor) >= 2
    /\ editor[1].file = editor[2].file
    /\ editor[1].blockId[1] = editor[2].blockId[1]
    /\ editor[1].blockId[2] = 2
    /\ editor[2].blockId[2] = 3
    /\ citationCounters[editor[1].file] = 3

----------------------------------------------------------------------------
\* The text ends in digits that follow 'p' or 'pp' in the middle of a word:
\* the character before the first p is a letter other than p.
EndsInsideWord(s) ==
    \E i \in 2..Len(s), n \in 1..2 :
        /\ s[i - 1] \in Letters \ {"p", "P"}
        /\ \A k \in i..(i + n - 1) : k <= Len(s) /\ s[k] \in {"p", "P"}
        /\ i + n <= Len(s)
        /\ \A k \in (i + n)..Len(s) : s[k] \in Digits

\* C29: for a text that ends in p or pp and digits inside a longer word,
\* extractPageNumber finds no page and cleanedText is the trimmed text.
C29_MarkerBeginsToken ==
    (pc = "paged" /\ EndsInsideWord(input))
    => /\ result.page = Null
       /\ result.cleanedText = trim(input)

----------------------------------------------------------------------------
\* C30: cleanFormattedText applied to its own output returns that output.
C30_CleanIdempotent ==
    pc = "recleaned" => result.twice = result.once

\* The first application rewrote a double and a single underscore span and
\* left an underscore over, and the text was cleaned a second time.
C30_Witness ==
    /\ pc = "recleaned"
    /\ Contains(result.once, SupOpen)
    /\ Contains(result.once, <<"*", "i", "*">>)
    /\ Contains(result.once, <<"_">>)
    /\ Contains(input, <<"_", "i", "_">>)

====
